---------------------------- MODULE Spec2Model ----------------------------
(***************************************************************************)
(* Verification model of the Nintendo Wii WAD reader (libromdata WiiWAD). *)
(*                                                                         *)
(* 32-bit unsigned values are kept exactly, as pairs <<q, r>> standing for *)
(* 64*q + r with 0 <= r < 64 and 0 <= q < 2^26, so that the wrap-around of *)
(* the code's unsigned arithmetic is preserved.  64-bit file sizes and     *)
(* unbounded sums use the same pairs without the bound on q.               *)
(***************************************************************************)
EXTENDS Integers, Sequences, FiniteSets, TLC

(***************************************************************************)
(* Bounds of the model.                                                    *)
(***************************************************************************)
\* Width of one banner name line (char16_t[21] in the program).
NameLen == 2
\* Number of banner languages (10 in the program).
NumLangs == 2

(***************************************************************************)
(* Program constants.                                                      *)
(***************************************************************************)
SizeofWadHeader == 32
SizeofTicket == 676
SizeofTmdHeader == 484
SizeofContentBinHeader == 64
SizeofIssuer == 64
WII_WAD_TYPE_Is == 1232273408
WII_WAD_TYPE_ib == 1768030208
WII_WAD_TYPE_Bk == 1114308608
WII_IMET_MAGIC == 1229800788
WII_LANG_ENGLISH == 1
Key_Rvt_Debug == 6
Key_Max == 7
EBADF == 9
EIO == 5

(***************************************************************************)
(* Fixed-width arithmetic.                                                 *)
(***************************************************************************)
\* Number of 64-byte units in 2^32.
Q32 == 67108864

\* A small natural number as a <<q, r>> pair.
FromNat(n) == <<n \div 64, n % 64>>

\* Comparison of <<q, r>> pairs.
PairLess(a, b) == a[1] < b[1] \/ (a[1] = b[1] /\ a[2] < b[2])
PairLeq(a, b) == ~PairLess(b, a)

\* Unbounded addition (64-bit file offsets, true sums).
PairAdd(a, b) == <<a[1] + b[1] + ((a[2] + b[2]) \div 64), (a[2] + b[2]) % 64>>

\* unsigned int addition: wraps modulo 2^32.
Add32(a, b) == <<(a[1] + b[1] + ((a[2] + b[2]) \div 64)) % Q32, (a[2] + b[2]) % 64>>

\* The four bytes of a big-endian 32-bit field for a value below 2^31.
cpu_to_be32(n) ==
    <<(n \div 16777216) % 256, (n \div 65536) % 256, (n \div 256) % 256, n % 256>>

\* The value of a big-endian 32-bit field.
be32_to_cpu(b) == <<b[1] * 262144 + b[2] * 1024 + b[3] * 4 + (b[4] \div 64), b[4] % 64>>

\* The value of a big-endian 16-bit field.
be16_to_cpu(b) == b[1] * 256 + b[2]

\* Mutant: rounds down instead of up.
toNext64_down(val) == <<val[1], 0>>

\* WiiWADPrivate::toNext64 on unsigned int: (val + 63) & ~63, modulo 2^32.
toNext64(val) == <<(val[1] + (IF val[2] > 0 THEN 1 ELSE 0)) % Q32, 0>>

\* Mathematical rounding up to a multiple of 64, without wrap-around.
TrueNext64(val) == <<val[1] + (IF val[2] > 0 THEN 1 ELSE 0), 0>>


(***************************************************************************)
(* Structures read from the file.                                          *)
(***************************************************************************)
NullPtr == "null"
\* Pointers to modelled objects: NullObj, or Ptr(x) pointing to x.
NullObj == <<>>
Ptr(x) == <<x>>

Zero4 == <<0, 0, 0, 0>>
Zero8 == <<0, 0, 0, 0, 0, 0, 0, 0>>
Zeros(n) == [i \in 1..n |-> 0]

\* Wii_WAD_Header after memset(0); every field is a big-endian 32-bit value.
ZeroWadHeader ==
    [header_size |-> Zero4, type |-> Zero4, cert_chain_size |-> Zero4,
     ticket_size |-> Zero4, tmd_size |-> Zero4, data_size |-> Zero4]

\* RVL_Ticket after memset(0) (the fields the reader uses).
ZeroTicket == [signature_issuer |-> Zeros(SizeofIssuer), common_key_index |-> 0]

\* RVL_TMD_Header after memset(0) (the fields the reader uses).
ZeroTmdHeader == [title_id |-> Zero8, title_version |-> <<0, 0>>, sys_version |-> Zero8]

\* One banner name line: NameLen UTF-16 code units.
ZeroLine == Zeros(NameLen)
Langs == 0..(NumLangs - 1)

\* Wii_IMET_t after memset(0).
ZeroImet == [magic |-> Zero4, names |-> [l \in Langs |-> <<ZeroLine, ZeroLine>>]]

\* "Root-CA00000002-XS00000006" with its terminator: sizeof(issuer_rvt) = 27.
issuer_rvt ==
    <<82, 111, 111, 116, 45, 67, 65, 48, 48, 48, 48, 48, 48, 48, 50, 45,
      88, 83, 48, 48, 48, 48, 48, 48, 48, 54, 0>>

(***************************************************************************)
(* ROM detection.                                                          *)
(***************************************************************************)
AcceptedTypes ==
    {cpu_to_be32(WII_WAD_TYPE_Is), cpu_to_be32(WII_WAD_TYPE_ib), cpu_to_be32(WII_WAD_TYPE_Bk)}

\* The unsigned int expected_size of isRomSupported_static.
ExpectedSize(h) ==
    Add32(Add32(Add32(Add32(toNext64(be32_to_cpu(h.header_size)),
                            toNext64(be32_to_cpu(h.cert_chain_size))),
                      toNext64(be32_to_cpu(h.ticket_size))),
                toNext64(be32_to_cpu(h.tmd_size))),
          FromNat(SizeofContentBinHeader))

\* Mutant: the header_size check is dropped.
isRomSupported_static_nohdrsize(info) ==
    IF info.pData = NullObj \/ info.addr # 0 \/ info.size < SizeofWadHeader
    THEN -1
    ELSE IF info.pData[1].type \notin AcceptedTypes
    THEN -1
    ELSE IF PairLess(be32_to_cpu(info.pData[1].ticket_size), FromNat(SizeofTicket))
    THEN -1
    ELSE IF PairLess(info.szFile, ExpectedSize(info.pData[1]))
    THEN -1
    ELSE 0

\* WiiWAD::isRomSupported_static
isRomSupported_static(info) ==
    IF info.pData = NullObj \/ info.addr # 0 \/ info.size < SizeofWadHeader
    THEN -1
    ELSE IF info.pData[1].header_size # cpu_to_be32(SizeofWadHeader)
    THEN -1
    ELSE IF info.pData[1].type \notin AcceptedTypes
    THEN -1
    ELSE IF PairLess(be32_to_cpu(info.pData[1].ticket_size), FromNat(SizeofTicket))
    THEN -1
    ELSE IF PairLess(info.szFile, ExpectedSize(info.pData[1]))
    THEN -1
    ELSE 0

(***************************************************************************)
(* Inputs: the files and environments the reader is run on.                *)
(***************************************************************************)
HeaderSizeVals == {cpu_to_be32(32), cpu_to_be32(64), <<32, 0, 0, 0>>}
TypeVals == AcceptedTypes \cup {<<73, 115, 0, 1>>}
CertChainSizeVals == {cpu_to_be32(672), <<255, 255, 255, 255>>}
TicketSizeVals == {cpu_to_be32(676), cpu_to_be32(675), <<255, 255, 255, 255>>}
TmdSizeVals == {cpu_to_be32(484), Zero4, <<255, 255, 255, 193>>}
DataSizeVals == {cpu_to_be32(1600)}

WadHeaders ==
    [header_size : HeaderSizeVals, type : TypeVals, cert_chain_size : CertChainSizeVals,
     ticket_size : TicketSizeVals, tmd_size : TmdSizeVals, data_size : DataSizeVals]

\* File sizes: 0x10, 0x80, 0x640, 0x800, 0x1000 and 2^32 + 0x1000.
FileSizes == {<<0, 16>>, <<2, 0>>, <<25, 0>>, <<32, 0>>, <<64, 0>>, <<Q32 + 64, 0>>}

\* The scenario of the documentation: a well-formed retail WAD.
BaseHeader ==
    [header_size |-> cpu_to_be32(32), type |-> cpu_to_be32(WII_WAD_TYPE_Is),
     cert_chain_size |-> cpu_to_be32(672), ticket_size |-> cpu_to_be32(676),
     tmd_size |-> cpu_to_be32(484), data_size |-> cpu_to_be32(1600)]
BaseFileSize == <<64, 0>>

\* A 64-byte issuer field holding the given characters, zero padded.
IssuerField(s) == [i \in 1..SizeofIssuer |-> IF i <= Len(s) THEN s[i] ELSE 0]

\* Issuers: debug signer; debug signer followed by one more character (no
\* terminator at offset 26); the retail signer; an empty field.
Issuers ==
    {IssuerField(issuer_rvt),
     IssuerField(SubSeq(issuer_rvt, 1, 26) \o <<48>>),
     IssuerField(SubSeq(issuer_rvt, 1, 14) \o <<49, 45, 88, 83, 48, 48, 48, 48, 48, 48, 48, 51>>),
     Zeros(SizeofIssuer)}
CommonKeyIndexVals == {0, 1, 2, 3, 255}
Tickets == [signature_issuer : Issuers, common_key_index : CommonKeyIndexVals]
BaseTicket ==
    [signature_issuer |->
        IssuerField(SubSeq(issuer_rvt, 1, 14) \o <<49, 45, 88, 83, 48, 48, 48, 48, 48, 48, 48, 51>>),
     common_key_index |-> 0]

\* Title metadata headers:
\*  a channel 00010001-"HABE" v1.2 needing IOS58;
\*  the System Menu 00000001-00000002 v513 without a system version;
\*  a title with a non-alphanumeric ID and a non-standard IOS slot;
\*  a title 00010005-"sZAa" with a lower-case region character.
Tmds ==
    {[title_id |-> <<0, 1, 0, 1, 72, 65, 66, 69>>, title_version |-> <<1, 2>>,
      sys_version |-> <<0, 0, 0, 1, 0, 0, 0, 58>>],
     [title_id |-> <<0, 0, 0, 1, 0, 0, 0, 2>>, title_version |-> <<2, 1>>,
      sys_version |-> Zero8],
     [title_id |-> <<0, 1, 0, 1, 72, 65, 1, 0>>, title_version |-> <<0, 0>>,
      sys_version |-> <<0, 0, 0, 1, 0, 0, 3, 0>>],
     [title_id |-> <<0, 1, 0, 5, 115, 90, 65, 97>>, title_version |-> <<255, 255>>,
      sys_version |-> <<0, 0, 0, 1, 0, 0, 0, 2>>]}
BaseTmd ==
    [title_id |-> <<0, 1, 0, 1, 72, 65, 66, 69>>, title_version |-> <<1, 2>>,
     sys_version |-> <<0, 0, 0, 1, 0, 0, 0, 58>>]

\* KeyManager::VerifyResult
VerifyResult ==
    {"Ok", "KeyNotFound", "IncorrectKey", "VerificationDataMissing",
     "DecryptionUnsupported", "Unknown"}

\* Banner name lines: empty; "A"; a line filling the whole array with no
\* terminator; a line holding a line feed.
FullLine == [i \in 1..NameLen |-> 66]
LinePairs == {<<a, b>> : a \in {ZeroLine, [ZeroLine EXCEPT ![1] = 65], [FullLine EXCEPT ![2] = 10]},
                         b \in {ZeroLine, FullLine}}
Imets == [magic : {cpu_to_be32(WII_IMET_MAGIC), <<87, 73, 66, 78>>},
          names : [Langs -> LinePairs]]
BaseImet == [magic |-> cpu_to_be32(WII_IMET_MAGIC),
             names |-> [l \in Langs |-> <<[ZeroLine EXCEPT ![1] = 65], ZeroLine>>]]


\* What the constructor is run on: the file (whether dup() succeeded, its
\* size, the bytes at the header, ticket and title metadata positions, the
\* decrypted content) and the environment (the key store's answer).
\* partial: whether a short read still delivered the modelled fields.
CtorInput(dupOK, szFile, hdr, tik, tmd, keyResult, contentOK, imetOK, im, partial) ==
    [dupOK |-> dupOK, szFile |-> szFile, hdr |-> hdr, ticket |-> tik, tmd |-> tmd,
     keyResult |-> keyResult, contentOK |-> contentOK, imetOK |-> imetOK,
     imet |-> im, partial |-> partial]

\* Every header and file size, with one ticket, title metadata and content.
HeaderInputs ==
    {CtorInput(d, sz, h, BaseTicket, BaseTmd, k, TRUE, TRUE, BaseImet, p) :
        d \in BOOLEAN, sz \in FileSizes, h \in WadHeaders, k \in {"Ok", "KeyNotFound"},
        p \in BOOLEAN}

\* Every ticket with every key store answer, in the well-formed file.
TicketInputs ==
    {CtorInput(TRUE, BaseFileSize, BaseHeader, t, BaseTmd, k, TRUE, TRUE, BaseImet, FALSE) :
        t \in Tickets, k \in VerifyResult}

\* Every title metadata header with every key store answer and, where the
\* key verifies and the content is decrypted, every outcome of the two reads
\* through the CBC reader and every banner.
ContentInputs ==
    {CtorInput(TRUE, BaseFileSize, BaseHeader, BaseTicket, tmd, k, TRUE, TRUE, BaseImet, FALSE) :
        tmd \in Tmds, k \in VerifyResult}
    \cup
    {CtorInput(TRUE, BaseFileSize, BaseHeader, BaseTicket, tmd, "Ok", c[1], c[2], im, c[3]) :
        tmd \in Tmds, im \in Imets,
        c \in {<<TRUE, TRUE, FALSE>>, <<TRUE, FALSE, FALSE>>, <<TRUE, FALSE, TRUE>>,
               <<FALSE, FALSE, FALSE>>}}

CtorInputs == HeaderInputs \cup TicketInputs \cup ContentInputs

(***************************************************************************)
(* State of one WiiWAD object (WiiWADPrivate and RomDataPrivate).          *)
(***************************************************************************)
VARIABLES
    ENABLE_DECRYPTION,  \* build option
    pc,                 \* "unopened", "open" (constructed), "destroyed"
    file,               \* d->file: NullPtr or "open"
    szFile,             \* size of the file the object was constructed on
    isValid,            \* d->isValid
    wadHeader,          \* d->wadHeader
    ticket,             \* d->ticket
    tmdHeader,          \* d->tmdHeader
    cbcReader,          \* d->cbcReader: NullPtr, "alive" or "dangling"
    imet,               \* d->imet
    key_idx,            \* d->key_idx
    key_status,         \* d->key_status
    fields,             \* d->fields: sequence of fields
    metaData,           \* d->metaData: NullObj or Ptr(sequence of properties)
    ret,                \* last operation and its return value
    nReads,             \* reads made on the file and on the CBC reader
    io,                 \* what the constructor did: file reads, reader window, ...
    readerFrees,        \* times the CBC reader object was deleted
    probe,              \* DetectInfo handed to isRomSupported_static
    probeResult         \* Ptr(its result), NullObj before the call

wadVars ==
    <<ENABLE_DECRYPTION, pc, file, szFile, isValid, wadHeader, ticket, tmdHeader,
      cbcReader, imet, key_idx, key_status, fields, metaData, ret, nReads, io,
      readerFrees>>
probeVars == <<probe, probeResult>>

(***************************************************************************)
(* State of the other components.                                          *)
(***************************************************************************)
VARIABLES
    banner,             \* a banner, a language and the game info got from them
    reg,                \* a format registry, a probe and the detection result
    ks,                 \* the key store and the threads calling it
    cbc,                \* a CBC reader, a read request and its result
    fs                  \* a stat() outcome and the result of filesize()

otherVars == <<banner, reg, ks, cbc, fs>>

VARIABLES
    url,     \* an extURLs call: title ID, image type, output vector, result
    mk,      \* an rmkdir call: the path, the directories, the mkdir calls made
    ovl,     \* an IsMemberOf call: its inputs, its position, the references
    dirs     \* the cache and config directories and the threads asking for them

extraVars == <<url, mk, ovl, dirs>>
vars == <<wadVars, probeVars, otherVars, extraVars>>

\* A file read of n bytes at offset addr is complete iff it ends within the file.
ReadIsFull(addr, n, size) == PairLeq(PairAdd(addr, FromNat(n)), size)

\* What a buffer holds after a read: the data on a full read; on a short
\* read either nothing or the modelled fields.
ReadInto(zero, data, full, partial) == IF full \/ partial THEN data ELSE zero

\* Mutant: the common key index is used unchecked.
KeyIndexOf_unchecked(tik) ==
    IF SubSeq(tik.signature_issuer, 1, Len(issuer_rvt)) = issuer_rvt
    THEN Key_Rvt_Debug
    ELSE tik.common_key_index

\* Key index selection of the constructor.
KeyIndexOf(tik) ==
    IF SubSeq(tik.signature_issuer, 1, Len(issuer_rvt)) = issuer_rvt
    THEN Key_Rvt_Debug
    ELSE IF tik.common_key_index > 2 THEN 0 ELSE tik.common_key_index

\* Mutant: a short read clears isValid but the file stays held.
ReadError_keepfile(d) == [d EXCEPT !.isValid = FALSE]

\* Mutant: a short read releases the file but leaves the object valid.
ReadError_keepvalid(d) == [d EXCEPT !.file = NullPtr]

\* The constructor's "seek and/or read error" exits.
ReadError(d) == [d EXCEPT !.isValid = FALSE, !.file = NullPtr]

\* Nothing done yet: no read on the file, no CBC reader window, no short
\* read through the CBC reader, no key store lookup.
NoIo == [reads |-> <<>>, window |-> NullObj, cbcShort |-> FALSE, keyLookups |-> 0]

\* WiiWADPrivate::WiiWADPrivate and RomDataPrivate::RomDataPrivate
PrivateInit(in) ==
    [file |-> IF in.dupOK THEN "open" ELSE NullPtr, isValid |-> FALSE,
     wadHeader |-> ZeroWadHeader, ticket |-> ZeroTicket, tmdHeader |-> ZeroTmdHeader,
     cbcReader |-> NullPtr, imet |-> ZeroImet, key_idx |-> Key_Max,
     key_status |-> "Unknown", nReads |-> 0, io |-> NoIo]

\* Address of the ticket: unsigned int arithmetic.
TicketAddr(h) ==
    Add32(toNext64(be32_to_cpu(h.header_size)), toNext64(be32_to_cpu(h.cert_chain_size)))
\* Address of the title metadata header.
TmdAddr(h) == Add32(TicketAddr(h), toNext64(be32_to_cpu(h.ticket_size)))
\* Address of the encrypted data area.
DataAddr(h) == Add32(TmdAddr(h), toNext64(be32_to_cpu(h.tmd_size)))

\* Mutant: the key status is left as constructed.
NoDecryption_unset(d) == d

\* The constructor without ENABLE_DECRYPTION.
NoDecryption(d) == [d EXCEPT !.key_status = "DecryptionUnsupported"]

\* Mutant: the constructor goes on to the banner after a failed verification.
KeyFailed_continue(d, in) ==
    [d EXCEPT !.key_status = in.keyResult, !.imet = in.imet,
              !.io.keyLookups = d.io.keyLookups + 1]

\* The constructor's exit when getAndVerify did not return VERIFY_OK.
KeyFailed(d, in) ==
    [d EXCEPT !.key_status = in.keyResult, !.io.keyLookups = d.io.keyLookups + 1]

\* The decryption part of the constructor, on a valid object d.
CtorDecrypt(d, in, enabled) ==
    IF ~enabled
    THEN NoDecryption(d)
    ELSE IF in.keyResult # "Ok"
    THEN KeyFailed(d, in)
    ELSE LET d1 == [d EXCEPT !.key_status = "Ok", !.cbcReader = "alive",
                             !.nReads = d.nReads + 1,
                             !.io.keyLookups = d.io.keyLookups + 1,
                             !.io.window = Ptr([start |-> DataAddr(d.wadHeader),
                                                length |-> be32_to_cpu(d.wadHeader.data_size)]),
                             !.io.cbcShort = ~in.contentOK]
         IN  IF ~in.contentOK
             THEN d1
             ELSE [d1 EXCEPT !.nReads = d1.nReads + 1,
                             !.io.cbcShort = ~in.imetOK,
                             !.imet = ReadInto(ZeroImet, in.imet, in.imetOK, in.partial)]

\* WiiWAD::WiiWAD
Ctor(in, enabled) ==
    LET d0 == PrivateInit(in)
        hdrFull == ReadIsFull(<<0, 0>>, SizeofWadHeader, in.szFile)
        d1 == [d0 EXCEPT !.nReads = 1,
                         !.io.reads = <<[addr |-> <<0, 0>>, size |-> SizeofWadHeader]>>,
                         !.wadHeader = ReadInto(ZeroWadHeader, in.hdr, hdrFull, in.partial)]
        info == [addr |-> 0, size |-> SizeofWadHeader, pData |-> Ptr(d1.wadHeader),
                 szFile |-> in.szFile]
        d2 == [d1 EXCEPT !.isValid = (isRomSupported_static(info) >= 0)]
        tikFull == ReadIsFull(TicketAddr(d2.wadHeader), SizeofTicket, in.szFile)
        d3 == [d2 EXCEPT !.nReads = 2,
                         !.io.reads = Append(d2.io.reads,
                                             [addr |-> TicketAddr(d2.wadHeader),
                                              size |-> SizeofTicket]),
                         !.ticket = ReadInto(ZeroTicket, in.ticket, tikFull, in.partial)]
        tmdFull == ReadIsFull(TmdAddr(d3.wadHeader), SizeofTmdHeader, in.szFile)
        d4 == [d3 EXCEPT !.nReads = 3,
                         !.io.reads = Append(d3.io.reads,
                                             [addr |-> TmdAddr(d3.wadHeader),
                                              size |-> SizeofTmdHeader]),
                         !.tmdHeader = ReadInto(ZeroTmdHeader, in.tmd, tmdFull, in.partial)]
        d5 == [d4 EXCEPT !.key_idx = KeyIndexOf(d4.ticket)]
    IN  IF d0.file = NullPtr THEN d0
        ELSE IF ~hdrFull THEN [d1 EXCEPT !.file = NullPtr]
        ELSE IF ~d2.isValid THEN [d2 EXCEPT !.file = NullPtr]
        ELSE IF ~tikFull THEN ReadError(d3)
        ELSE IF ~tmdFull THEN ReadError(d4)
        ELSE CtorDecrypt(d5, in, enabled)


(***************************************************************************)
(* Banner text.                                                            *)
(***************************************************************************)
\* Length of the string held in a fixed-width array: up to the first NUL.
StrLen(str, len) ==
    IF \E i \in 1..len : str[i] = 0
    THEN (CHOOSE i \in 1..len : str[i] = 0 /\ \A j \in 1..(i - 1) : str[j] # 0) - 1
    ELSE len

\* utf16be_to_utf8: the characters of at most len code units, up to a NUL.
utf16be_to_utf8(str, len) == SubSeq(str, 1, StrLen(str, len))

\* Mutant: the banner magic is not checked.
getGameInfo_nomagic(im, lang, enabled) ==
    IF ~enabled THEN <<>>
    ELSE LET l == IF im.names[lang][1][1] = 0 THEN WII_LANG_ENGLISH ELSE lang
             info == utf16be_to_utf8(im.names[l][1], NameLen)
         IN  IF im.names[l][2][1] # 0
             THEN info \o <<10>> \o utf16be_to_utf8(im.names[l][2], NameLen)
             ELSE info

\* Mutant: the second line is always appended.
getGameInfo_always2(im, lang, enabled) ==
    IF ~enabled THEN <<>>
    ELSE IF im.magic # cpu_to_be32(WII_IMET_MAGIC) THEN <<>>
    ELSE LET l == IF im.names[lang][1][1] = 0 THEN WII_LANG_ENGLISH ELSE lang
         IN  utf16be_to_utf8(im.names[l][1], NameLen) \o <<10>>
                  \o utf16be_to_utf8(im.names[l][2], NameLen)

\* WiiWADPrivate::getGameInfo; lang is NintendoLanguage::getWiiLanguage().
getGameInfo(im, lang, enabled) ==
    IF ~enabled THEN <<>>
    ELSE IF im.magic # cpu_to_be32(WII_IMET_MAGIC) THEN <<>>
    ELSE LET l == IF im.names[lang][1][1] = 0 THEN WII_LANG_ENGLISH ELSE lang
             info == utf16be_to_utf8(im.names[l][1], NameLen)
         IN  IF im.names[l][2][1] # 0
             THEN info \o <<10>> \o utf16be_to_utf8(im.names[l][2], NameLen)
             ELSE info

\* The text before the first line feed (string::find and string::resize).
FirstLine(str) ==
    IF \E i \in 1..Len(str) : str[i] = 10
    THEN SubSeq(str, 1,
                (CHOOSE i \in 1..Len(str) : str[i] = 10 /\ \A j \in 1..(i - 1) : str[j] # 10) - 1)
    ELSE str

(***************************************************************************)
(* Field data.                                                             *)
(***************************************************************************)
isalnum(c) == (c >= 48 /\ c <= 57) \/ (c >= 65 /\ c <= 90) \/ (c >= 97 /\ c <= 122)
isupper(c) == c >= 65 /\ c <= 90

\* KeyManager::verifyResultToString: a text per result, NullPtr out of range.
verifyResultToString(res) == IF res = "Unknown" THEN NullPtr ELSE res

\* WiiSystemMenuVersion::lookup: version string, NullObj if unknown.
SysMenuLookup(version) ==
    CASE version = 33 -> <<49, 46, 48, 0>>
      [] version = 512 -> <<52, 46, 51, 74, 0>>
      [] version = 513 -> <<52, 46, 51, 85, 0>>
      [] version = 514 -> <<52, 46, 51, 69, 0>>
      [] OTHER -> NullObj

Field(name, value) == [name |-> name, value |-> value]

\* The region character of loadFieldData.
RegionChar(tmd) ==
    IF SubSeq(tmd.title_id, 1, 4) = cpu_to_be32(1)
    THEN IF SubSeq(tmd.title_id, 5, 8) = cpu_to_be32(2)
         THEN LET ver == SysMenuLookup(be16_to_cpu(tmd.title_version))
              IN  IF ver # NullObj THEN ver[4] ELSE 0
         ELSE 0
    ELSE tmd.title_id[8]

\* The region text of loadFieldData.
RegionText(c) ==
    CASE c \in {0, 65} -> <<"Region-Free">>
      [] c = 69 -> <<"USA">>
      [] c = 74 -> <<"Japan">>
      [] c = 87 -> <<"Taiwan">>
      [] c \in {75, 84, 81} -> <<"South Korea">>
      [] c = 67 -> <<"China">>
      [] OTHER -> IF isupper(c) THEN <<"Europe">> ELSE <<"Unknown (0x%02X)", c>>

encKeyNames == <<"Retail", "Korean", "vWii", "SD AES", "SD IV", "SD MD5", "Debug">>

\* Mutant: the warning is added after the other fields.
WarningFirst_last(warning, rest) == rest \o warning

\* Order in which loadFieldData adds the warning and the other fields.
WarningFirst(warning, rest) == warning \o rest

\* The fields loadFieldData adds for an open valid object.
FieldList(keyStatus, keyIdx, tmd, gameInfo) ==
    LET warning ==
            IF keyStatus # "Ok"
            THEN LET err == verifyResultToString(keyStatus)
                 IN  <<Field("Warning",
                             <<IF err = NullPtr THEN "Unknown error. (THIS IS A BUG!)" ELSE err>>)>>
            ELSE <<>>
        titleId == <<Field("Title ID", <<"%08X-%08X", be32_to_cpu(SubSeq(tmd.title_id, 1, 4)),
                                         be32_to_cpu(SubSeq(tmd.title_id, 5, 8))>>)>>
        gameId ==
            IF \A i \in 5..8 : isalnum(tmd.title_id[i])
            THEN <<Field("Game ID", <<"%.4s", SubSeq(tmd.title_id, 5, 8)>>)>>
            ELSE <<>>
        title_version == be16_to_cpu(tmd.title_version)
        version == <<Field("Title Version",
                           <<"%u.%u (v%u)", title_version \div 256, title_version % 256,
                             title_version>>)>>
        region == <<Field("Region", RegionText(RegionChar(tmd)))>>
        ios_lo == be32_to_cpu(SubSeq(tmd.sys_version, 5, 8))
        ios ==
            IF SubSeq(tmd.sys_version, 1, 4) = cpu_to_be32(1)
               /\ PairLess(FromNat(2), ios_lo) /\ PairLess(ios_lo, FromNat(768))
            THEN <<Field("IOS Version", <<"IOS%u", ios_lo>>)>>
            ELSE IF tmd.sys_version # Zero8
            THEN <<Field("IOS Version",
                         <<"%08X-%08X", be32_to_cpu(SubSeq(tmd.sys_version, 1, 4)), ios_lo>>)>>
            ELSE <<>>
        encKey == <<Field("Encryption Key",
                          <<IF keyIdx >= 0 /\ keyIdx < Key_Max
                            THEN encKeyNames[keyIdx + 1] ELSE "Unknown">>)>>
        info == IF gameInfo # <<>> THEN <<Field("Game Info", <<"%s", gameInfo>>)>> ELSE <<>>
    IN  WarningFirst(warning, titleId \o gameId \o version \o region \o ios \o encKey \o info)


(***************************************************************************)
(* Operations of the object.                                               *)
(***************************************************************************)
\* delete on the CBC reader pointer: the pointer keeps its value.
DeleteReader(ptr) == IF ptr = NullPtr THEN NullPtr ELSE "dangling"
\* Number of objects delete frees: none for a null pointer.
FreesOf(ptr) == IF ptr = NullPtr THEN 0 ELSE 1

\* WiiWAD::WiiWAD: the whole constructor, run on one input.
Construct ==
    /\ pc = "unopened"
    /\ \E in \in CtorInputs :
         LET d == Ctor(in, ENABLE_DECRYPTION)
         IN  /\ file' = d.file
             /\ szFile' = in.szFile
             /\ isValid' = d.isValid
             /\ wadHeader' = d.wadHeader
             /\ ticket' = d.ticket
             /\ tmdHeader' = d.tmdHeader
             /\ cbcReader' = d.cbcReader
             /\ imet' = d.imet
             /\ key_idx' = d.key_idx
             /\ key_status' = d.key_status
             /\ nReads' = d.nReads
             /\ io' = d.io
    /\ pc' = "open"
    /\ ret' = [op |-> "WiiWAD", rc |-> 0]
    /\ UNCHANGED <<ENABLE_DECRYPTION, fields, metaData, readerFrees, probeVars, otherVars, extraVars>>

\* Mutant: close releases the file and leaves the reader alone.
CloseReader_skip(ptr) == ptr

\* Mutant: the reader pointer is not reset after delete.
CloseReader_keep(ptr) == DeleteReader(ptr)

\* The reader pointer after WiiWAD::close: delete, then nullptr.
CloseReader(ptr) == NullPtr

\* RomData::close: the file is deleted and the pointer reset.
SuperClose(f) == NullPtr

\* WiiWAD::close
Close ==
    /\ pc = "open"
    /\ readerFrees' = readerFrees + FreesOf(cbcReader)
    /\ cbcReader' = CloseReader(cbcReader)
    /\ file' = SuperClose(file)
    /\ ret' = [op |-> "close", rc |-> 0]
    /\ UNCHANGED <<ENABLE_DECRYPTION, pc, szFile, isValid, wadHeader, ticket, tmdHeader,
                   imet, key_idx, key_status, fields, metaData, nReads, io, probeVars,
                   otherVars, extraVars>>

\* WiiWAD::~WiiWAD: ~WiiWADPrivate deletes the reader, ~RomDataPrivate the file.
Destroy ==
    /\ pc = "open"
    /\ pc' = "destroyed"
    /\ readerFrees' = readerFrees + FreesOf(cbcReader)
    /\ cbcReader' = DeleteReader(cbcReader)
    /\ file' = NullPtr
    /\ ret' = [op |-> "~WiiWAD", rc |-> 0]
    /\ UNCHANGED <<ENABLE_DECRYPTION, szFile, isValid, wadHeader, ticket, tmdHeader,
                   imet, key_idx, key_status, fields, metaData, nReads, io, probeVars,
                   otherVars, extraVars>>

\* Mutant: the file and validity checks are missing.
loadFieldData_unguarded(flds, f, valid, keyStatus, keyIdx, tmd, gameInfo) ==
    IF flds # <<>> THEN [rc |-> 0, fields |-> flds]
    ELSE LET fl == flds \o FieldList(keyStatus, keyIdx, tmd, gameInfo)
         IN  [rc |-> Len(fl), fields |-> fl]

\* Mutant: the "already loaded" check is missing.
loadFieldData_reload(flds, f, valid, keyStatus, keyIdx, tmd, gameInfo) ==
    IF f = NullPtr THEN [rc |-> -EBADF, fields |-> flds]
    ELSE IF ~valid THEN [rc |-> -EIO, fields |-> flds]
    ELSE LET fl == flds \o FieldList(keyStatus, keyIdx, tmd, gameInfo)
         IN  [rc |-> Len(fl), fields |-> fl]

\* WiiWAD::loadFieldData: return value and field list.
loadFieldData(flds, f, valid, keyStatus, keyIdx, tmd, gameInfo) ==
    IF flds # <<>> THEN [rc |-> 0, fields |-> flds]
    ELSE IF f = NullPtr THEN [rc |-> -EBADF, fields |-> flds]
    ELSE IF ~valid THEN [rc |-> -EIO, fields |-> flds]
    ELSE LET fl == flds \o FieldList(keyStatus, keyIdx, tmd, gameInfo)
         IN  [rc |-> Len(fl), fields |-> fl]

LoadFieldData ==
    /\ pc = "open"
    /\ \E lang \in Langs :
         LET r == loadFieldData(fields, file, isValid, key_status, key_idx, tmdHeader,
                                getGameInfo(imet, lang, ENABLE_DECRYPTION))
         IN  /\ fields' = r.fields
             /\ ret' = [op |-> "loadFieldData", rc |-> r.rc]
    /\ UNCHANGED <<ENABLE_DECRYPTION, pc, file, szFile, isValid, wadHeader, ticket,
                   tmdHeader, cbcReader, imet, key_idx, key_status, metaData, nReads, io,
                   readerFrees, probeVars, otherVars, extraVars>>

\* Mutant: the metadata object is created before the title is checked.
loadMetaData_early(md, f, valid, gameInfo) ==
    IF md # NullObj THEN [rc |-> 0, metaData |-> md]
    ELSE IF f = NullPtr THEN [rc |-> -EBADF, metaData |-> md]
    ELSE IF ~valid THEN [rc |-> -EIO, metaData |-> md]
    ELSE IF gameInfo = <<>> THEN [rc |-> -EIO, metaData |-> Ptr(<<>>)]
    ELSE IF FirstLine(gameInfo) = <<>> THEN [rc |-> -EIO, metaData |-> Ptr(<<>>)]
    ELSE [rc |-> 1,
          metaData |-> Ptr(<<[property |-> "Title", value |-> FirstLine(gameInfo)]>>)]

\* WiiWAD::loadMetaData: return value and metadata object.
loadMetaData(md, f, valid, gameInfo) ==
    IF md # NullObj THEN [rc |-> 0, metaData |-> md]
    ELSE IF f = NullPtr THEN [rc |-> -EBADF, metaData |-> md]
    ELSE IF ~valid THEN [rc |-> -EIO, metaData |-> md]
    ELSE IF gameInfo = <<>> THEN [rc |-> -EIO, metaData |-> md]
    ELSE IF FirstLine(gameInfo) = <<>> THEN [rc |-> -EIO, metaData |-> md]
    ELSE [rc |-> 1,
          metaData |-> Ptr(<<[property |-> "Title", value |-> FirstLine(gameInfo)]>>)]

LoadMetaData ==
    /\ pc = "open"
    /\ \E lang \in Langs :
         LET r == loadMetaData(metaData, file, isValid,
                               getGameInfo(imet, lang, ENABLE_DECRYPTION))
         IN  /\ metaData' = r.metaData
             /\ ret' = [op |-> "loadMetaData", rc |-> r.rc]
    /\ UNCHANGED <<ENABLE_DECRYPTION, pc, file, szFile, isValid, wadHeader, ticket,
                   tmdHeader, cbcReader, imet, key_idx, key_status, fields, nReads, io,
                   readerFrees, probeVars, otherVars, extraVars>>

(***************************************************************************)
(* Detection on arbitrary probes.                                          *)
(***************************************************************************)
Probes ==
    [addr : {0, 1}, size : {0, SizeofWadHeader - 1, SizeofWadHeader, 512},
     pData : {Ptr(h) : h \in WadHeaders} \cup {NullObj}, szFile : FileSizes]

NoProbe == [addr |-> 0, size |-> 0, pData |-> NullObj, szFile |-> <<0, 0>>]

\* isRomSupported_static applied to the probe.
Detect ==
    /\ probeResult = NullObj
    /\ probeResult' = Ptr(isRomSupported_static(probe))
    /\ UNCHANGED <<probe, wadVars, otherVars, extraVars>>

(***************************************************************************)
(* Specifications.                                                         *)
(***************************************************************************)
InitObject ==
    /\ pc = "unopened"
    /\ file = NullPtr
    /\ szFile = <<0, 0>>
    /\ isValid = FALSE
    /\ wadHeader = ZeroWadHeader
    /\ ticket = ZeroTicket
    /\ tmdHeader = ZeroTmdHeader
    /\ cbcReader = NullPtr
    /\ imet = ZeroImet
    /\ key_idx = Key_Max
    /\ key_status = "Unknown"
    /\ fields = <<>>
    /\ metaData = NullObj
    /\ ret = [op |-> "none", rc |-> 0]
    /\ nReads = 0
    /\ io = NoIo
    /\ readerFrees = 0

\* One WiiWAD object: constructed on a file, queried, closed, destroyed.
Init ==
    /\ ENABLE_DECRYPTION \in BOOLEAN
    /\ InitObject
    /\ probe = NoProbe
    /\ probeResult = NullObj
    /\ banner = NullObj /\ reg = NullObj /\ ks = NullObj /\ cbc = NullObj /\ fs = NullObj
    /\ url = NullObj /\ mk = NullObj /\ ovl = NullObj /\ dirs = NullObj

Next == Construct \/ LoadFieldData \/ LoadMetaData \/ Close \/ Destroy

Spec == Init /\ [][Next]_vars

\* isRomSupported_static on every probe.
InitDetect ==
    /\ ENABLE_DECRYPTION = TRUE
    /\ InitObject
    /\ probe \in Probes
    /\ probeResult = NullObj
    /\ banner = NullObj /\ reg = NullObj /\ ks = NullObj /\ cbc = NullObj /\ fs = NullObj
    /\ url = NullObj /\ mk = NullObj /\ ovl = NullObj /\ dirs = NullObj

NextDetect == Detect

SpecDetect == InitDetect /\ [][NextDetect]_vars

\* No WiiWAD object and no probe: the state of the specifications below.
NoObject ==
    /\ InitObject
    /\ probe = NoProbe
    /\ probeResult = NullObj

(***************************************************************************)
(* getGameInfo on every banner and language.                               *)
(***************************************************************************)
InitBanner ==
    /\ ENABLE_DECRYPTION \in BOOLEAN
    /\ NoObject
    /\ banner \in [imet : Imets, lang : Langs, info : {NullObj}]
    /\ reg = NullObj /\ ks = NullObj /\ cbc = NullObj /\ fs = NullObj
    /\ url = NullObj /\ mk = NullObj /\ ovl = NullObj /\ dirs = NullObj

\* WiiWADPrivate::getGameInfo applied to the banner.
GetGameInfo ==
    /\ banner.info = NullObj
    /\ banner' = [banner EXCEPT
                     !.info = Ptr(getGameInfo(banner.imet, banner.lang, ENABLE_DECRYPTION))]
    /\ UNCHANGED <<wadVars, probeVars, reg, ks, cbc, fs, extraVars>>

NextBanner == GetGameInfo

SpecBanner == InitBanner /\ [][NextBanner]_vars

(***************************************************************************)
(* The format registry: RomDataFactory, as the overlay handler calls it.   *)
(***************************************************************************)
\* Number of registered descriptors.
NumDescs == 3

\* Kinds of header the probes can hold.
ProbeKinds == {1, 2}

\* Capability flags; RDA_HAS_DPOVERLAY is the one IsMemberOf asks for.
Capabilities == {"RDA_HAS_DPOVERLAY"}

\* A descriptor: the probes its predicate accepts and its capabilities.
Descriptors == [matches : SUBSET ProbeKinds, caps : SUBSET Capabilities]

\* The registries: every registration order of NumDescs descriptors.
Registries == [1..NumDescs -> Descriptors]

\* Descriptors from position i on, in registration order: the first whose
\* predicate matches and which has every required capability.
RECURSIVE detectFrom(_, _, _, _)
detectFrom(descs, i, p, required) ==
    IF i > Len(descs) THEN NullObj
    ELSE IF p \in descs[i].matches /\ required \subseteq descs[i].caps THEN Ptr(i)
    ELSE detectFrom(descs, i + 1, p, required)

\* Mutant: the required capabilities are not checked.
detect_anycaps(descs, p, required) == detectFrom(descs, 1, p, {})

\* FormatRegistry.detect: the position of the descriptor found, or none.
detect(descs, p, required) == detectFrom(descs, 1, p, required)

InitRegistry ==
    /\ ENABLE_DECRYPTION = TRUE
    /\ NoObject
    /\ reg \in [descs : Registries, probe : ProbeKinds,
                required : SUBSET Capabilities, done : {FALSE}, result : {NullObj}]
    /\ banner = NullObj /\ ks = NullObj /\ cbc = NullObj /\ fs = NullObj
    /\ url = NullObj /\ mk = NullObj /\ ovl = NullObj /\ dirs = NullObj

\* One detection on the registry.
RegistryDetect ==
    /\ ~reg.done
    /\ reg' = [reg EXCEPT !.done = TRUE,
                          !.result = detect(reg.descs, reg.probe, reg.required)]
    /\ UNCHANGED <<wadVars, probeVars, banner, ks, cbc, fs, extraVars>>

NextRegistry == RegistryDetect

SpecRegistry == InitRegistry /\ [][NextRegistry]_vars

(***************************************************************************)
(* The key store: KeyManager::instance() and getAndVerify, called by       *)
(* several threads that each construct a WiiWAD.                           *)
(***************************************************************************)
\* Number of threads calling the key store.
NumThreads == 3

\* Number of keys the population loads into the table.
NumKeys == 2

Threads == 1..NumThreads

\* Mutant: a caller arriving during the population does not wait.
Arrive_nowait(once) ==
    IF once = "idle" THEN "populating" ELSE "lookup"

\* Where a caller goes on arriving at the guard: the first caller
\* populates, a caller arriving during the population waits, later callers
\* go on to their lookup.
Arrive(once) ==
    IF once = "idle" THEN "populating"
    ELSE IF once = "running" THEN "waiting"
    ELSE "lookup"

InitKeyStore ==
    /\ ENABLE_DECRYPTION = TRUE
    /\ NoObject
    /\ ks = [once |-> "idle", table |-> 0, populations |-> 0,
             pc |-> [t \in Threads |-> "start"],
             arrivedDuring |-> [t \in Threads |-> FALSE],
             seen |-> [t \in Threads |-> NullObj]]
    /\ banner = NullObj /\ reg = NullObj /\ cbc = NullObj /\ fs = NullObj
    /\ url = NullObj /\ mk = NullObj /\ ovl = NullObj /\ dirs = NullObj

\* Thread t calls the key store.
KsArrive(t) ==
    /\ ks.pc[t] = "start"
    /\ ks' = [ks EXCEPT !.pc[t] = Arrive(ks.once),
                        !.arrivedDuring[t] = (ks.once = "running"),
                        !.once = IF ks.once = "idle" THEN "running" ELSE @,
                        !.populations = IF ks.once = "idle" THEN @ + 1 ELSE @]
    /\ UNCHANGED <<wadVars, probeVars, banner, reg, cbc, fs, extraVars>>

\* The populating thread loads one more key into the table.
KsLoadKey(t) ==
    /\ ks.pc[t] = "populating"
    /\ ks.table < NumKeys
    /\ ks' = [ks EXCEPT !.table = @ + 1]
    /\ UNCHANGED <<wadVars, probeVars, banner, reg, cbc, fs, extraVars>>

\* The populating thread has loaded every key and opens the guard.
KsPopulated(t) ==
    /\ ks.pc[t] = "populating"
    /\ ks.table = NumKeys
    /\ ks' = [ks EXCEPT !.once = "done", !.pc[t] = "lookup"]
    /\ UNCHANGED <<wadVars, probeVars, banner, reg, cbc, fs, extraVars>>

\* A waiting thread is released once the population has completed.
KsRelease(t) ==
    /\ ks.pc[t] = "waiting"
    /\ ks.once = "done"
    /\ ks' = [ks EXCEPT !.pc[t] = "lookup"]
    /\ UNCHANGED <<wadVars, probeVars, banner, reg, cbc, fs, extraVars>>

\* getAndVerify: a read of the table, without a lock.
KsGetAndVerify(t) ==
    /\ ks.pc[t] = "lookup"
    /\ ks' = [ks EXCEPT !.pc[t] = "returned", !.seen[t] = Ptr(ks.table)]
    /\ UNCHANGED <<wadVars, probeVars, banner, reg, cbc, fs, extraVars>>

NextKeyStore ==
    \E t \in Threads :
        \/ KsArrive(t)
        \/ KsLoadKey(t)
        \/ KsPopulated(t)
        \/ KsRelease(t)
        \/ KsGetAndVerify(t)

SpecKeyStore == InitKeyStore /\ [][NextKeyStore]_vars

(***************************************************************************)
(* The CBC reader: reads at any offset of an encrypted area.               *)
(***************************************************************************)
\* Bytes of a cipher block.
BlockSize == 2

\* Blocks of the encrypted area.
NumBlocks == 3

\* Number of values of a byte.
ByteVals == 4

\* Bitwise exclusive or of two bytes.
RECURSIVE Xor(_, _)
Xor(a, b) ==
    IF a = 0 THEN b
    ELSE IF b = 0 THEN a
    ELSE (((a % 2) + (b % 2)) % 2) + 2 * Xor(a \div 2, b \div 2)

XorBlock(x, y) == [i \in 1..BlockSize |-> Xor(x[i], y[i])]

\* The raw block decryption under a key: a keyed function of the whole block.
DecryptBlock(key, blk) ==
    [i \in 1..BlockSize |-> (3 * blk[BlockSize + 1 - i] + key + i) % ByteVals]

\* Block i (from 0) of a ciphertext.
BlockOf(ct, i) == SubSeq(ct, i * BlockSize + 1, (i + 1) * BlockSize)

\* Decryption of the whole stream in sequence: the chaining value starts as
\* the IV and becomes the ciphertext block just decrypted.
RECURSIVE DecryptStream(_, _, _)
DecryptStream(key, chain, ct) ==
    IF ct = <<>> THEN <<>>
    ELSE LET blk == SubSeq(ct, 1, BlockSize)
         IN  XorBlock(DecryptBlock(key, blk), chain)
                 \o DecryptStream(key, blk, SubSeq(ct, BlockSize + 1, Len(ct)))

\* Mutant: every block is chained to the initial chaining value.
ChainFor_iv(ct, iv, i) == iv

\* The chaining value of block i: the ciphertext of block i-1, or the
\* reader's initial chaining value for block 0.
ChainFor(ct, iv, i) == IF i = 0 THEN iv ELSE BlockOf(ct, i - 1)

\* Decryption of the blocks b0 .. b1-1, each on its own.
RECURSIVE DecryptRange(_, _, _, _, _)
DecryptRange(key, iv, ct, b0, b1) ==
    IF b0 >= b1 THEN <<>>
    ELSE XorBlock(DecryptBlock(key, BlockOf(ct, b0)), ChainFor(ct, iv, b0))
             \o DecryptRange(key, iv, ct, b0 + 1, b1)

\* read(localOffset, length): none on a range error.
CbcRead(key, iv, ct, offset, length) ==
    IF length <= 0 \/ offset < 0 \/ offset + length > Len(ct) THEN NullObj
    ELSE LET b0 == offset \div BlockSize
             b1 == (offset + length + BlockSize - 1) \div BlockSize
             plain == DecryptRange(key, iv, ct, b0, b1)
         IN  Ptr(SubSeq(plain, offset - b0 * BlockSize + 1,
                        offset - b0 * BlockSize + length))

\* The cipher blocks the encrypted areas are made of.
CipherBlocks == {[i \in 1..BlockSize |-> 0],
                 [i \in 1..BlockSize |-> IF i = 1 THEN 3 ELSE 1],
                 [i \in 1..BlockSize |-> i % ByteVals]}

RECURSIVE Ciphertexts(_)
Ciphertexts(n) ==
    IF n = 0 THEN {<<>>}
    ELSE {blk \o rest : blk \in CipherBlocks, rest \in Ciphertexts(n - 1)}

InitCbc ==
    /\ ENABLE_DECRYPTION = TRUE
    /\ NoObject
    /\ cbc \in [key : 0..(ByteVals - 1), iv : CipherBlocks, ct : Ciphertexts(NumBlocks),
                offset : 0..(NumBlocks * BlockSize), length : 0..(NumBlocks * BlockSize),
                done : {FALSE}, result : {NullObj}]
    /\ banner = NullObj /\ reg = NullObj /\ ks = NullObj /\ fs = NullObj
    /\ url = NullObj /\ mk = NullObj /\ ovl = NullObj /\ dirs = NullObj

\* One read through the reader.
CbcReaderRead ==
    /\ ~cbc.done
    /\ cbc' = [cbc EXCEPT !.done = TRUE,
                          !.result = CbcRead(cbc.key, cbc.iv, cbc.ct, cbc.offset, cbc.length)]
    /\ UNCHANGED <<wadVars, probeVars, banner, reg, ks, fs, extraVars>>

NextCbc == CbcReaderRead

SpecCbc == InitCbc /\ [][NextCbc]_vars

(***************************************************************************)
(* FileSystem::filesize (POSIX).                                           *)
(***************************************************************************)
EINVAL == 22

\* errno after a failed stat(): EPERM, ENOENT, EIO, ENOMEM, EACCES,
\* ENOTDIR, ENAMETOOLONG, ELOOP, EOVERFLOW.
StatErrnos == {1, 2, EIO, 12, 13, 20, 36, 40, 75}

\* st_size of the files.
StatSizes == {0, 1, 31, 32, 2048, 65536, 1048576}

\* What stat() can do: succeed (errno is whatever it was) or fail with -1
\* and an error number.
StatOutcomes ==
    [ret : {0}, errno : {0} \cup StatErrnos, st_size : StatSizes]
        \cup [ret : {-1}, errno : StatErrnos, st_size : StatSizes]

\* FileSystem::filesize on the outcome of stat().
filesize(st) ==
    IF st.ret # 0
    THEN IF -st.errno = 0 THEN -EINVAL ELSE -st.errno
    ELSE st.st_size

InitFS ==
    /\ ENABLE_DECRYPTION = TRUE
    /\ NoObject
    /\ fs \in [stat : StatOutcomes, done : {FALSE}, result : {NullObj}]
    /\ banner = NullObj /\ reg = NullObj /\ ks = NullObj /\ cbc = NullObj
    /\ url = NullObj /\ mk = NullObj /\ ovl = NullObj /\ dirs = NullObj

\* One call of filesize.
Filesize ==
    /\ ~fs.done
    /\ fs' = [fs EXCEPT !.done = TRUE, !.result = Ptr(filesize(fs.stat))]
    /\ UNCHANGED <<wadVars, probeVars, banner, reg, ks, cbc, extraVars>>

NextFS == Filesize

SpecFS == InitFS /\ [][NextFS]_vars

(***************************************************************************)
(* WiiWAD::extURLs.                                                        *)
(***************************************************************************)
ERANGE == 34
ENOENT == 2

\* RomData::ImageType values used by extURLs.
IMG_EXT_MIN == 4
IMG_EXT_COVER == 5
IMG_EXT_COVER_3D == 6
IMG_EXT_COVER_FULL == 7
IMG_EXT_TITLE_SCREEN == 9
IMG_EXT_MAX == 9

\* ISPRINT on a char.
ISPRINT(c) == c >= 32 /\ c <= 126

\* WiiWAD::supportedImageSizes_static
supportedImageSizes(imageType) ==
    IF imageType = IMG_EXT_COVER
    THEN <<[name |-> "", width |-> 160, height |-> 224, index |-> 0]>>
    ELSE IF imageType = IMG_EXT_COVER_3D
    THEN <<[name |-> "", width |-> 176, height |-> 248, index |-> 0]>>
    ELSE IF imageType = IMG_EXT_COVER_FULL
    THEN <<[name |-> "", width |-> 512, height |-> 340, index |-> 0],
           [name |-> "HQ", width |-> 1024, height |-> 680, index |-> 1]>>
    ELSE IF imageType = IMG_EXT_TITLE_SCREEN
    THEN <<[name |-> "", width |-> 192, height |-> 112, index |-> 0]>>
    ELSE <<>>

\* The image type name and extension of extURLs, none if unsupported.
imageTypeName_base(imageType) ==
    IF imageType = IMG_EXT_COVER THEN Ptr("cover")
    ELSE IF imageType = IMG_EXT_COVER_3D THEN Ptr("cover3D")
    ELSE IF imageType = IMG_EXT_COVER_FULL THEN Ptr("coverfull")
    ELSE IF imageType = IMG_EXT_TITLE_SCREEN THEN Ptr("wwtitle")
    ELSE NullObj

\* WiiWADPrivate::wadRegionToGameTDB on the character code of the ID region.
wadRegionToGameTDB(idRegion) ==
    LET E == 69  J == 74  O == 79  D == 68  F == 70  H == 72
        I == 73  R == 82  S == 83  U == 85
        codes == IF idRegion \in {E, O} THEN <<"US">>
                 ELSE IF idRegion = J THEN <<"JA">>
                 ELSE IF idRegion = D THEN <<"DE">>
                 ELSE IF idRegion = F THEN <<"FR">>
                 ELSE IF idRegion \in {H, I} THEN <<"NL">>
                 ELSE IF idRegion = R THEN <<"RU">>
                 ELSE IF idRegion = S THEN <<"ES">>
                 ELSE <<>>
        fallback_region == IF idRegion \in {E, J, O, D, F, H, I, R, S} THEN 0
                           ELSE IF idRegion = U THEN 2
                           ELSE 1
    IN  IF fallback_region = 1 THEN codes \o <<"EN">>
        ELSE IF fallback_region = 2 THEN codes \o <<"AU", "EN">>
        ELSE codes

\* The high words of the title IDs that have GameTDB artwork.
ValidTidHi == {<<0, 1, 0, 0>>, <<0, 1, 0, 1>>, <<0, 1, 0, 2>>, <<0, 1, 0, 4>>,
               <<0, 1, 0, 5>>, <<0, 1, 0, 8>>}

\* Mutant: the output vector is not cleared.
ClearVec_keep(v) == v

\* pExtURLs->clear()
ClearVec(v) == Ptr(<<>>)

\* An entry as resize() creates it.
EmptyExtURL == [url |-> <<>>, cache_key |-> <<>>, width |-> 0, height |-> 0,
                high_res |-> FALSE]

\* The entries of the output vector after the two loops: entry k is size
\* definition (k-1) div n and region (k-1) mod n, n the number of regions.
FilledExtURLs(szdefs_dl, tdb_regions, base, id4) ==
    LET n == Len(tdb_regions)
    IN  [k \in 1..(Len(szdefs_dl) * n) |->
            LET def == szdefs_dl[((k - 1) \div n) + 1]
                region == tdb_regions[((k - 1) % n) + 1]
                parts == <<"wii", base, def.name, region, id4, ".png">>
            IN  [EmptyExtURL EXCEPT !.url = <<"url">> \o parts,
                                    !.cache_key = <<"cache_key">> \o parts,
                                    !.width = def.width,
                                    !.height = def.height,
                                    !.high_res = (def.index >= 2)]]

\* WiiWAD::extURLs: return value and output vector. best is what
\* selectBestSize returned: 0 for nullptr, else a position in sizeDefs.
extURLs(imageType, pExtURLs, title_id, best) ==
    IF imageType < IMG_EXT_MIN \/ imageType > IMG_EXT_MAX
    THEN [rc |-> -ERANGE, vec |-> pExtURLs]
    ELSE IF pExtURLs = NullObj THEN [rc |-> -EINVAL, vec |-> pExtURLs]
    ELSE LET cleared == ClearVec(pExtURLs)
             sizeDefs == supportedImageSizes(imageType)
             base == imageTypeName_base(imageType)
             id4 == SubSeq(title_id, 5, 8)
         IN  IF SubSeq(title_id, 1, 4) \notin ValidTidHi
             THEN [rc |-> -ENOENT, vec |-> cleared]
             ELSE IF sizeDefs = <<>> THEN [rc |-> -ENOENT, vec |-> cleared]
             ELSE IF best = 0 THEN [rc |-> -ENOENT, vec |-> cleared]
             ELSE IF base = NullObj THEN [rc |-> -ENOENT, vec |-> cleared]
             ELSE IF \E i \in 1..4 : ~ISPRINT(id4[i])
             THEN [rc |-> -ENOENT, vec |-> cleared]
             ELSE LET sizeDef == sizeDefs[best]
                      szdefs_dl == IF sizeDef.index >= 2
                                   THEN <<sizeDef, sizeDefs[1]>>
                                   ELSE <<sizeDef>>
                  IN  [rc |-> 0,
                       vec |-> Ptr(FilledExtURLs(szdefs_dl, wadRegionToGameTDB(id4[4]),
                                                 base[1], id4))]

\* The title IDs extURLs is called on: every accepted high word and two
\* others, IDs with each region letter and with a non-printable character
\* in the first or the last place.
UrlTitleIds ==
    {hi \o <<c1, 65, 66, c4>> :
        hi \in ValidTidHi \cup {<<0, 0, 0, 1>>, <<0, 1, 0, 3>>},
        c1 \in {87, 31},
        c4 \in {69, 74, 79, 80, 68, 85, 90, 127, 0}}

\* The output vectors: none, an empty one, one with an entry of an earlier call.
UrlVectors == {NullObj, Ptr(<<>>), Ptr(<<EmptyExtURL>>)}

InitURL ==
    /\ ENABLE_DECRYPTION = TRUE
    /\ NoObject
    /\ url \in [title_id : UrlTitleIds, imageType : (IMG_EXT_MIN - 1)..(IMG_EXT_MAX + 1),
                vec0 : UrlVectors, vec : UrlVectors, best : {0}, done : {FALSE}, rc : {0}]
    /\ url.vec = url.vec0
    /\ banner = NullObj /\ reg = NullObj /\ ks = NullObj /\ cbc = NullObj /\ fs = NullObj
    /\ mk = NullObj /\ ovl = NullObj /\ dirs = NullObj

\* One call of extURLs; selectBestSize may return any size definition or nullptr.
ExtURLs ==
    /\ ~url.done
    /\ \E best \in 0..Len(supportedImageSizes(url.imageType)) :
         LET r == extURLs(url.imageType, url.vec0, url.title_id, best)
         IN  url' = [url EXCEPT !.done = TRUE, !.best = best, !.rc = r.rc, !.vec = r.vec]
    /\ UNCHANGED <<wadVars, probeVars, otherVars, mk, ovl, dirs>>

NextURL == ExtURLs

SpecURL == InitURL /\ [][NextURL]_vars

(***************************************************************************)
(* FileSystem::rmkdir (POSIX).                                             *)
(***************************************************************************)
\* Longest path.
MaxPathLen == 4

DIR_SEP_CHR == 47
EEXIST == 17

\* string::npos; positions in a string count from 0.
NPOS == -1

\* std::string::find(c, pos)
find(str, c, pos) ==
    LET hits == {i \in pos..(Len(str) - 1) : str[i + 1] = c}
    IN  IF hits = {} THEN NPOS
        ELSE CHOOSE i \in hits : \A j \in hits : i <= j

\* The paths: separators and the letter 'a'.
Paths == UNION {[1..n -> {DIR_SEP_CHR, 97}] : n \in 0..MaxPathLen}

\* errno after a failed mkdir(): EEXIST, EACCES, EROFS.
MkdirErrnos == {EEXIST, 13, 30}

\* The separator the loop starts at.
FirstSlash(path8) ==
    IF find(path8, DIR_SEP_CHR, 0) = 0
    THEN find(path8, DIR_SEP_CHR, 1)
    ELSE find(path8, DIR_SEP_CHR, 0)

InitMk ==
    /\ ENABLE_DECRYPTION = TRUE
    /\ NoObject
    /\ mk \in [path8 : Paths, pc : {"call"}, slash_pos : {NPOS}, calls : {<<>>}, rc : {0}]
    /\ banner = NullObj /\ reg = NullObj /\ ks = NullObj /\ cbc = NullObj /\ fs = NullObj
    /\ url = NullObj /\ ovl = NullObj /\ dirs = NullObj

\* rmkdir up to the loop.
RmkdirEnter ==
    /\ mk.pc = "call"
    /\ mk' = [mk EXCEPT !.pc = "loop", !.slash_pos = FirstSlash(mk.path8)]
    /\ UNCHANGED <<wadVars, probeVars, otherVars, url, ovl, dirs>>

\* One iteration of the loop: mkdir() of the path up to the separator
\* succeeds or fails with some errno.
RmkdirMkdir ==
    /\ mk.pc = "loop"
    /\ mk.slash_pos # NPOS
    /\ \E err \in {0} \cup MkdirErrnos :
         LET call == [dir |-> SubSeq(mk.path8, 1, mk.slash_pos), errno |-> err]
         IN  IF err # 0 /\ err # EEXIST
             THEN mk' = [mk EXCEPT !.pc = "done", !.rc = -err,
                                   !.calls = Append(@, call)]
             ELSE mk' = [mk EXCEPT !.calls = Append(@, call),
                                   !.slash_pos = find(mk.path8, DIR_SEP_CHR,
                                                      mk.slash_pos + 1)]
    /\ UNCHANGED <<wadVars, probeVars, otherVars, url, ovl, dirs>>

\* No separator is left: rmkdir() succeeded.
RmkdirReturn ==
    /\ mk.pc = "loop"
    /\ mk.slash_pos = NPOS
    /\ mk' = [mk EXCEPT !.pc = "done", !.rc = 0]
    /\ UNCHANGED <<wadVars, probeVars, otherVars, url, ovl, dirs>>

NextMk == RmkdirEnter \/ RmkdirMkdir \/ RmkdirReturn

SpecMk == InitMk /\ [][NextMk]_vars

(***************************************************************************)
(* RP_ShellIconOverlayIdentifier::IsMemberOf.                              *)
(***************************************************************************)
\* The attribute bits IsMemberOf tests, and one it does not.
SlowAttribs == {"SFGAO_ISSLOW", "SFGAO_GHOSTED", "SFGAO_FOLDER"}
Attribs == SlowAttribs \cup {"SFGAO_READONLY"}

\* What a call runs on: its arguments, the configuration, the file system,
\* whether the file opens, whether RomDataFactory::create returns an object
\* and what that object's hasDangerousPermissions() returns.
OverlayInputs ==
    [pathNull : BOOLEAN, showOverlay : BOOLEAN, dwAttrib : SUBSET Attribs,
     badFS : BOOLEAN, isOpen : BOOLEAN, supported : BOOLEAN, dangerous : BOOLEAN]

\* Nothing created, released or asked yet.
NoRefs == [files |-> 0, fileUnrefs |-> 0, romDatas |-> 0, romDataUnrefs |-> 0,
           asked |-> <<>>]

\* Mutant: the file is not released when it could not be opened.
OpenFailed_leak(r) == [hr |-> "E_FAIL", refs |-> r]

\* The exit for a file that could not be opened: unref, E_FAIL.
OpenFailed(r) == [hr |-> "E_FAIL", refs |-> [r EXCEPT !.fileUnrefs = @ + 1]]

\* IsMemberOf: the HRESULT, the objects created and released, and the
\* questions asked of the configuration and the file system, in order.
IsMemberOf(in) ==
    LET r1 == [NoRefs EXCEPT !.asked = <<"showDangerousPermissionsOverlayIcon">>]
        r2 == [r1 EXCEPT !.asked = Append(@, "isOnBadFS")]
        r3 == [r2 EXCEPT !.files = 1]
        r4 == [r3 EXCEPT !.asked = Append(@, "RomDataFactory::create"),
                         !.romDatas = IF in.supported THEN 1 ELSE 0,
                         !.fileUnrefs = @ + 1]
        r5 == [r4 EXCEPT !.asked = Append(@, "hasDangerousPermissions"),
                         !.romDataUnrefs = @ + 1]
    IN  IF in.pathNull THEN [hr |-> "E_POINTER", refs |-> NoRefs]
        ELSE IF ~in.showOverlay THEN [hr |-> "S_FALSE", refs |-> r1]
        ELSE IF in.dwAttrib \cap SlowAttribs # {} THEN [hr |-> "S_FALSE", refs |-> r1]
        ELSE IF in.badFS THEN [hr |-> "S_FALSE", refs |-> r2]
        ELSE IF ~in.isOpen THEN OpenFailed(r3)
        ELSE IF ~in.supported THEN [hr |-> "S_FALSE", refs |-> r4]
        ELSE [hr |-> IF in.dangerous THEN "S_OK" ELSE "S_FALSE", refs |-> r5]

InitOverlay ==
    /\ ENABLE_DECRYPTION = TRUE
    /\ NoObject
    /\ ovl \in [in : OverlayInputs, done : {FALSE}, hr : {"none"}, refs : {NoRefs}]
    /\ banner = NullObj /\ reg = NullObj /\ ks = NullObj /\ cbc = NullObj /\ fs = NullObj
    /\ url = NullObj /\ mk = NullObj /\ dirs = NullObj

\* One call of IsMemberOf.
OverlayIsMemberOf ==
    /\ ~ovl.done
    /\ LET r == IsMemberOf(ovl.in)
       IN  ovl' = [ovl EXCEPT !.done = TRUE, !.hr = r.hr, !.refs = r.refs]
    /\ UNCHANGED <<wadVars, probeVars, otherVars, url, mk, dirs>>

NextOverlay == OverlayIsMemberOf

SpecOverlay == InitOverlay /\ [][NextOverlay]_vars

(***************************************************************************)
(* FileSystem::getCacheDirectory and getConfigDirectory (POSIX), called by *)
(* several threads.                                                        *)
(***************************************************************************)
\* Number of calling threads.
NumCallers == 2

Callers == 1..NumCallers

\* What LibUnixCommon returns: strings of characters, empty on error.
BaseDirs == {<<>>, <<"/">>, <<"a">>, <<"a", "/">>}

\* Mutant: a caller arriving while the init routine runs does not wait.
pthread_once_nowait(once) ==
    IF once = "init" THEN "initializing" ELSE "return"

\* pthread_once on once_control: the first caller runs the init routine, a
\* caller arriving while it runs blocks, later callers go on.
pthread_once(once) ==
    IF once = "init" THEN "initializing"
    ELSE IF once = "running" THEN "blocked"
    ELSE "return"

\* "Add a trailing slash if necessary" on a non-empty directory.
AddSlash(dir) ==
    IF dir # <<>> /\ dir[Len(dir)] # "/" THEN dir \o <<"/">> ELSE dir

\* Append "rom-properties" to a non-empty directory.
AddName(dir) == IF dir # <<>> THEN dir \o <<"rom-properties">> ELSE dir

\* The statements of initConfigDirectories, in order.
InitSteps == <<"cache_get", "cache_slash", "cache_name",
               "config_get", "config_slash", "config_name">>

InitDirs ==
    /\ ENABLE_DECRYPTION = TRUE
    /\ NoObject
    /\ dirs \in [once : {"init"}, step : {1}, inits : {0},
                 cache_base : BaseDirs, config_base : BaseDirs,
                 cache_dir : {<<>>}, config_dir : {<<>>},
                 fn : [Callers -> {"getCacheDirectory", "getConfigDirectory"}],
                 pc : {[t \in Callers |-> "start"]},
                 got : {[t \in Callers |-> NullObj]}]
    /\ banner = NullObj /\ reg = NullObj /\ ks = NullObj /\ cbc = NullObj /\ fs = NullObj
    /\ url = NullObj /\ mk = NullObj /\ ovl = NullObj

\* Thread t enters its function and calls pthread_once.
DirsCall(t) ==
    /\ dirs.pc[t] = "start"
    /\ dirs' = [dirs EXCEPT !.pc[t] = pthread_once(dirs.once),
                            !.once = IF dirs.once = "init" THEN "running" ELSE @,
                            !.inits = IF dirs.once = "init" THEN @ + 1 ELSE @]
    /\ UNCHANGED <<wadVars, probeVars, otherVars, url, mk, ovl>>

\* The thread running initConfigDirectories executes its next statement;
\* after the last one pthread_once returns.
DirsInitStep(t) ==
    /\ dirs.pc[t] = "initializing"
    /\ LET st == InitSteps[dirs.step]
           d1 == [dirs EXCEPT
                    !.cache_dir = IF st = "cache_get" THEN dirs.cache_base
                                  ELSE IF st = "cache_slash" THEN AddSlash(@)
                                  ELSE IF st = "cache_name" THEN AddName(@)
                                  ELSE @,
                    !.config_dir = IF st = "config_get" THEN dirs.config_base
                                   ELSE IF st = "config_slash" THEN AddSlash(@)
                                   ELSE IF st = "config_name" THEN AddName(@)
                                   ELSE @]
       IN  IF dirs.step < Len(InitSteps)
           THEN dirs' = [d1 EXCEPT !.step = @ + 1]
           ELSE dirs' = [d1 EXCEPT !.once = "done", !.pc[t] = "return"]
    /\ UNCHANGED <<wadVars, probeVars, otherVars, url, mk, ovl>>

\* A blocked thread's pthread_once returns once the init routine has ended.
DirsUnblock(t) ==
    /\ dirs.pc[t] = "blocked"
    /\ dirs.once = "done"
    /\ dirs' = [dirs EXCEPT !.pc[t] = "return"]
    /\ UNCHANGED <<wadVars, probeVars, otherVars, url, mk, ovl>>

\* return cache_dir; or return config_dir;
DirsReturn(t) ==
    /\ dirs.pc[t] = "return"
    /\ dirs' = [dirs EXCEPT !.pc[t] = "returned",
                            !.got[t] = Ptr(IF dirs.fn[t] = "getCacheDirectory"
                                           THEN dirs.cache_dir
                                           ELSE dirs.config_dir)]
    /\ UNCHANGED <<wadVars, probeVars, otherVars, url, mk, ovl>>

NextDirs ==
    \E t \in Callers :
        \/ DirsCall(t)
        \/ DirsInitStep(t)
        \/ DirsUnblock(t)
        \/ DirsReturn(t)

SpecDirs == InitDirs /\ [][NextDirs]_vars


(***************************************************************************)
(* Properties.                                                             *)
(***************************************************************************)
Opened == ret.op = "WiiWAD"
FieldNames == {fields[i].name : i \in 1..Len(fields)}

TrueExpectedSize(h) ==
    PairAdd(PairAdd(PairAdd(PairAdd(TrueNext64(be32_to_cpu(h.header_size)),
                                    TrueNext64(be32_to_cpu(h.cert_chain_size))),
                            TrueNext64(be32_to_cpu(h.ticket_size))),
                    TrueNext64(be32_to_cpu(h.tmd_size))),
            FromNat(SizeofContentBinHeader))

\* C2: a file smaller than the true sum of the rounded section sizes plus
\* the content sub-header never becomes a Valid instance.
C2_NoTruncatedValid ==
    (pc = "open" /\ isValid) => ~PairLess(szFile, TrueExpectedSize(wadHeader))

\* C3: a Valid instance has a declared ticket_size of at least the ticket
\* structure and a declared tmd_size of at least the title metadata header.
C3_SizesValidated ==
    (pc = "open" /\ isValid) =>
        /\ ~PairLess(be32_to_cpu(wadHeader.ticket_size), FromNat(676))
        /\ ~PairLess(be32_to_cpu(wadHeader.tmd_size), FromNat(484))

\* The outcomes of the constructor's reads and detection, from the file.
HeaderShort == PairLess(szFile, FromNat(32))
DetectFailed ==
    isRomSupported_static([addr |-> 0, size |-> 32, pData |-> Ptr(wadHeader),
                           szFile |-> szFile]) < 0
TicketShort == ~ReadIsFull(TicketAddr(wadHeader), 676, szFile)
TmdShort == ~ReadIsFull(TmdAddr(wadHeader), 484, szFile)

\* C4: right after the constructor, a short header read, a failed detection
\* or a short ticket or title metadata read leaves the instance Invalid with
\* its file released, and isValid holds exactly when the file is still held.
C4_ValidIffFileHeld ==
    Opened =>
        /\ (HeaderShort \/ DetectFailed \/ TicketShort \/ TmdShort) =>
              (~isValid /\ file = NullPtr)
        /\ isValid <=> (file # NullPtr)

\* Detection accepted the header, the ticket was read, and the title
\* metadata read came up short.
C4_Witness ==
    Opened /\ ~HeaderShort /\ ~DetectFailed /\ ~TicketShort /\ TmdShort /\ file = NullPtr

\* C5: from an Invalid instance every step keeps isValid false, the field
\* list empty and the metadata absent, and a loadFieldData or loadMetaData
\* call returns a negative error code.
C5_InvalidTerminal ==
    [][(pc = "open" /\ ~isValid) =>
          /\ ~isValid'
          /\ fields' = <<>>
          /\ metaData' = NullObj
          /\ ret'.op \in {"loadFieldData", "loadMetaData"} => ret'.rc < 0]_vars

\* loadMetaData was called on an Invalid instance.
C5_Witness == pc = "open" /\ ~isValid /\ ret.op = "loadMetaData" /\ ret.rc < 0

\* C6: on a Valid instance whose key status is not Ok: the constructor
\* leaves the file held; loadFieldData on the open instance succeeds with a
\* Warning field first, carrying the text of the verify result, and with the
\* Title ID, Title Version, Region and Encryption Key fields; loadMetaData
\* returns an error and creates no metadata.
C6_KeyFailureWarns ==
    (pc = "open" /\ isValid /\ key_status # "Ok") =>
        /\ Opened => file = "open"
        /\ (ret.op = "loadFieldData" /\ file = "open") =>
              /\ ret.rc >= 0
              /\ fields # <<>>
              /\ fields[1].name = "Warning"
              /\ fields[1].value =
                    <<IF key_status = "Unknown"
                      THEN "Unknown error. (THIS IS A BUG!)" ELSE key_status>>
              /\ {"Title ID", "Title Version", "Region", "Encryption Key"} \subseteq FieldNames
        /\ ret.op = "loadMetaData" => ret.rc < 0
        /\ metaData = NullObj

\* Fields were loaded on a Valid instance whose key was found incorrect.
C6_Witness ==
    /\ pc = "open" /\ isValid /\ key_status = "IncorrectKey"
    /\ ret.op = "loadFieldData" /\ ret.rc > 0 /\ file = "open"

\* v is the text of g before its first line feed.
IsFirstLineOf(v, g) ==
    /\ Len(v) <= Len(g)
    /\ \A i \in 1..Len(v) : v[i] = g[i] /\ v[i] # 10
    /\ Len(v) < Len(g) => g[Len(v) + 1] = 10

\* No language yields a game info string with a non-empty first line.
NoTitle ==
    \A lang \in Langs :
        LET g == getGameInfo(imet, lang, ENABLE_DECRYPTION)
        IN  g = <<>> \/ g[1] = 10

\* C7: if the title cannot be obtained (key not verified, banner magic
\* mismatch, empty first line) loadMetaData returns an error and the metadata
\* object stays absent; a metadata object that exists holds exactly one
\* property, Title, the non-empty first line of the game info string.
C7_MetaDataAllOrNothing ==
    /\ (key_status # "Ok" \/ imet.magic # <<73, 77, 69, 84>> \/ NoTitle) =>
          /\ metaData = NullObj
          /\ ret.op = "loadMetaData" => ret.rc < 0
    /\ (ret.op = "loadMetaData" /\ ret.rc < 0) => metaData = NullObj
    /\ metaData # NullObj =>
          /\ Len(metaData[1]) = 1
          /\ metaData[1][1].property = "Title"
          /\ metaData[1][1].value # <<>>
          /\ \E lang \in Langs :
                IsFirstLineOf(metaData[1][1].value,
                              getGameInfo(imet, lang, ENABLE_DECRYPTION))

\* A metadata object was created from a game info string of two lines.
C7_Witness ==
    /\ metaData # NullObj
    /\ \A lang \in Langs :
          Len(getGameInfo(imet, lang, ENABLE_DECRYPTION)) > Len(metaData[1][1].value)

\* C8: once the field list is loaded, no step changes it or reads from the
\* file or the CBC reader, and a further loadFieldData returns 0.
C8_FieldsIdempotent ==
    [][(pc = "open" /\ fields # <<>>) =>
          /\ fields' = fields
          /\ nReads' = nReads
          /\ ret'.op = "loadFieldData" => ret'.rc = 0]_vars

\* loadFieldData was called again on loaded fields.
C8_Witness == pc = "open" /\ fields # <<>> /\ ret.op = "loadFieldData" /\ ret.rc = 0

\* C9: after close the reader pointer is null and the file is released; a
\* close on a closed instance changes nothing; the reader is deleted at most
\* once and the instance never holds a pointer to a deleted reader.
C9_CloseIdempotent ==
    /\ [](/\ ret.op = "close" => (cbcReader = NullPtr /\ file = NullPtr)
          /\ readerFrees <= 1
          /\ pc = "open" => cbcReader # "dangling")
    /\ [][(Close /\ ret.op = "close") => UNCHANGED vars]_vars

\* An instance with a reader was closed and then destroyed.
C9_Witness == pc = "destroyed" /\ cbcReader = NullPtr /\ readerFrees = 1

\* The ticket's issuer field starts with the debug signer and its terminator.
IsDebugIssuer ==
    /\ \A i \in 1..26 : ticket.signature_issuer[i] = issuer_rvt[i]
    /\ ticket.signature_issuer[27] = 0

\* C10: on a Valid instance the key index is the debug key if the issuer is
\* the debug signer, otherwise the common key index if it is 0, 1 or 2 and 0
\* if it is larger; it is never Key_Max.
C10_KeyIndex ==
    (pc = "open" /\ isValid) =>
        /\ IsDebugIssuer => key_idx = 6
        /\ (~IsDebugIssuer /\ ticket.common_key_index <= 2) =>
              key_idx = ticket.common_key_index
        /\ (~IsDebugIssuer /\ ticket.common_key_index > 2) => key_idx = 0
        /\ key_idx # 7

\* A ticket whose issuer continues past the debug signer's 26 characters and
\* whose common key index is out of range got the default key.
C10_Witness ==
    /\ pc = "open" /\ isValid
    /\ \A i \in 1..26 : ticket.signature_issuer[i] = issuer_rvt[i]
    /\ ticket.signature_issuer[27] # 0
    /\ ticket.common_key_index = 255
    /\ key_idx = 0

\* The smallest multiple of 64 that is >= the value of a 32-bit field.
Round64(b) == TrueNext64(be32_to_cpu(b))

\* C11: the ticket is read at round64(header_size) + round64(cert_chain_size),
\* the title metadata header at that offset plus round64(ticket_size), and
\* the CBC reader's window starts at that offset plus round64(tmd_size) and
\* has the length data_size.
C11_SectionOffsets ==
    (pc = "open" /\ isValid) =>
        LET tik == PairAdd(Round64(wadHeader.header_size), Round64(wadHeader.cert_chain_size))
            tmd == PairAdd(tik, Round64(wadHeader.ticket_size))
            data == PairAdd(tmd, Round64(wadHeader.tmd_size))
        IN  /\ io.reads[2].addr = tik
            /\ io.reads[3].addr = tmd
            /\ io.window # NullObj =>
                  /\ io.window[1].start = data
                  /\ io.window[1].length = be32_to_cpu(wadHeader.data_size)

\* The field of the list with the given name, NullObj if there is none.
FieldNamed(n) ==
    IF n \in FieldNames
    THEN Ptr(fields[CHOOSE i \in 1..Len(fields) : fields[i].name = n])
    ELSE NullObj

\* C12: with the key verified and a banner whose magic is not IMET, the game
\* info is empty, loadMetaData returns an error and creates nothing, and
\* loadFieldData succeeds with the Title ID, Title Version and Region of the
\* title metadata header and neither a Warning nor a Game Info field.
C12_BannerMismatch ==
    (pc = "open" /\ isValid /\ key_status = "Ok" /\ imet.magic # <<73, 77, 69, 84>>) =>
        /\ \A lang \in Langs : getGameInfo(imet, lang, ENABLE_DECRYPTION) = <<>>
        /\ metaData = NullObj
        /\ ret.op = "loadMetaData" => ret.rc < 0
        /\ (ret.op = "loadFieldData" /\ file = "open") => (ret.rc >= 0 /\ fields # <<>>)
        /\ fields # <<>> =>
              /\ {"Title ID", "Title Version", "Region"} \subseteq FieldNames
              /\ "Warning" \notin FieldNames
              /\ "Game Info" \notin FieldNames
              /\ FieldNamed("Title ID")[1].value =
                    <<"%08X-%08X", be32_to_cpu(SubSeq(tmdHeader.title_id, 1, 4)),
                      be32_to_cpu(SubSeq(tmdHeader.title_id, 5, 8))>>
              /\ FieldNamed("Title Version")[1].value[4] =
                    256 * tmdHeader.title_version[1] + tmdHeader.title_version[2]

\* Fields were loaded from a WAD whose key verified and whose banner is a
\* fully read WIBN block.
C12_Witness ==
    /\ pc = "open" /\ isValid /\ key_status = "Ok" /\ imet.magic = <<87, 73, 66, 78>>
    /\ ~io.cbcShort
    /\ ret.op = "loadFieldData" /\ ret.rc > 0

\* s is the text held in the fixed-width line: the characters before the
\* first NUL, or the whole line if it has none.
IsTextOf(s, line) ==
    /\ Len(s) <= NameLen
    /\ \A i \in 1..Len(s) : s[i] = line[i] /\ s[i] # 0
    /\ Len(s) < NameLen => line[Len(s) + 1] = 0

\* C13: for a banner with the IMET magic, the game info is taken from the
\* system language's names if the first character of their first line is not
\* zero and from the English names otherwise; it is the first line, followed
\* by a line feed and the second line only if the second line is not empty.
C13_BannerNames ==
    (ENABLE_DECRYPTION /\ banner.info # NullObj /\ banner.imet.magic = <<73, 77, 69, 84>>) =>
        LET names == banner.imet.names
            l == IF names[banner.lang][1][1] # 0 THEN banner.lang ELSE 1
            info == banner.info[1]
        IN  \E n1 \in 0..NameLen, n2 \in 0..NameLen :
                /\ IsTextOf(SubSeq(names[l][1], 1, n1), names[l][1])
                /\ IsTextOf(SubSeq(names[l][2], 1, n2), names[l][2])
                /\ n2 = 0 => info = SubSeq(names[l][1], 1, n1)
                /\ n2 > 0 => info = SubSeq(names[l][1], 1, n1) \o <<10>>
                                        \o SubSeq(names[l][2], 1, n2)

\* The system language's first line is empty, the English names have two
\* lines, and the game info holds both.
C13_Witness ==
    /\ ENABLE_DECRYPTION /\ banner.info # NullObj
    /\ banner.imet.magic = <<73, 77, 69, 84>>
    /\ banner.lang # 1
    /\ banner.imet.names[banner.lang][1][1] = 0
    /\ banner.imet.names[banner.lang][2][1] # 0
    /\ banner.imet.names[1][1][1] # 0
    /\ banner.imet.names[1][2][1] # 0
    /\ Len(banner.info[1]) > NameLen + 1

\* C14: after a short read through the CBC reader in the constructor the
\* instance is in an error or warning state: Invalid, or with a key status
\* other than Ok.
C14_ShortReadSurfaced ==
    (pc = "open" /\ io.cbcShort) => (~isValid \/ key_status # "Ok")

\* C15: without ENABLE_DECRYPTION a Valid instance has the key status
\* DecryptionUnsupported, made no key store lookup, has no CBC reader, and
\* its game info is empty.
C15_NoDecryption ==
    (~ENABLE_DECRYPTION /\ pc = "open" /\ isValid) =>
        /\ key_status = "DecryptionUnsupported"
        /\ io.keyLookups = 0
        /\ cbcReader = NullPtr
        /\ io.window = NullObj
        /\ \A lang \in Langs : getGameInfo(imet, lang, ENABLE_DECRYPTION) = <<>>
        /\ "Game Info" \notin FieldNames

\* Fields were loaded on a Valid instance of a build without decryption.
C15_Witness ==
    /\ ~ENABLE_DECRYPTION /\ pc = "open" /\ isValid
    /\ ret.op = "loadFieldData" /\ ret.rc > 0

\* C20: the field list never holds more than 7 fields, and never both a
\* Warning and a Game Info field.
C20_AtMostSevenFields ==
    /\ Len(fields) <= 7
    /\ ~("Warning" \in FieldNames /\ "Game Info" \in FieldNames)

\* A list of 7 fields ending with the Game Info.
C20_Witness == Len(fields) = 7 /\ fields[7].name = "Game Info"

\* Descriptor i of the registry matches the probe and has the capabilities.
Eligible(i) ==
    /\ reg.probe \in reg.descs[i].matches
    /\ reg.required \subseteq reg.descs[i].caps

\* C16: detect returns the first descriptor in registration order whose
\* predicate matches the probe and which has the required capabilities, and
\* none when there is no such descriptor.
C16_DetectFirstMatch ==
    reg.done =>
        /\ reg.result = NullObj <=> ~ \E i \in 1..NumDescs : Eligible(i)
        /\ reg.result # NullObj =>
              /\ reg.result[1] \in 1..NumDescs
              /\ Eligible(reg.result[1])
              /\ \A j \in 1..(reg.result[1] - 1) : ~Eligible(j)

\* Two descriptors match the probe and have the capability asked for, an
\* earlier one matches without it, and the earlier of the two was returned.
C16_Witness ==
    /\ reg.done
    /\ reg.required = {"RDA_HAS_DPOVERLAY"}
    /\ reg.probe \in reg.descs[1].matches /\ ~Eligible(1)
    /\ Eligible(2) /\ Eligible(3)
    /\ reg.result = Ptr(2)

\* C17: the key table is populated exactly once, no lookup sees a partly
\* populated table, and a caller that arrived during the population does
\* not go on before the population has completed.
C17_PopulatedOnce ==
    /\ ks.populations <= 1
    /\ (\E t \in Threads : ks.pc[t] # "start") => ks.populations = 1
    /\ \A t \in Threads :
          /\ ks.seen[t] # NullObj => ks.seen[t] = Ptr(NumKeys)
          /\ (ks.arrivedDuring[t] /\ ks.once # "done") => ks.pc[t] = "waiting"
          /\ ks.pc[t] \in {"lookup", "returned"} => (ks.once = "done" /\ ks.table = NumKeys)

\* A thread that arrived during the population and one that arrived after
\* it have both made their lookup.
C17_Witness ==
    \E t, u \in Threads :
        /\ ks.arrivedDuring[t] /\ ks.pc[t] = "returned"
        /\ ~ks.arrivedDuring[u] /\ ks.pc[u] = "returned"
        /\ \E v \in Threads \ {t, u} : ks.pc[v] = "returned"

\* The read request lies within the encrypted area.
CbcInRange == cbc.length > 0 /\ cbc.offset + cbc.length <= Len(cbc.ct)

\* C18: a read of an in-range (offset, length) returns the bytes
\* [offset, offset + length) of the plaintext got by decrypting the whole
\* stream in sequence from the initial chaining value.
C18_CbcRandomAccess ==
    (cbc.done /\ CbcInRange) =>
        /\ cbc.result # NullObj
        /\ cbc.result[1] = SubSeq(DecryptStream(cbc.key, cbc.iv, cbc.ct),
                                  cbc.offset + 1, cbc.offset + cbc.length)

\* A read that starts inside block 0, crosses block 1 and ends inside the
\* last block, on a ciphertext whose blocks differ from the initial
\* chaining value.
C18_Witness ==
    /\ cbc.done /\ cbc.result # NullObj
    /\ cbc.offset = BlockSize - 1
    /\ cbc.offset + cbc.length = (NumBlocks - 1) * BlockSize + 1
    /\ BlockOf(cbc.ct, 0) # cbc.iv /\ BlockOf(cbc.ct, 1) # cbc.iv
    /\ BlockOf(cbc.ct, 0) # BlockOf(cbc.ct, 1)
    /\ Len(cbc.result[1]) = cbc.length

\* C19: filesize returns the size of the file when stat() succeeds and -1
\* when stat() fails.
C19_FilesizeMinusOne ==
    fs.done =>
        /\ fs.stat.ret = 0 => fs.result = Ptr(fs.stat.st_size)
        /\ fs.stat.ret # 0 => fs.result = Ptr(-1)

\* C24: a loadFieldData call on an instance without its file and without
\* fields returns -EBADF and adds nothing; an Invalid instance never holds a
\* file, so no loadFieldData returns -EIO and a loadMetaData that returns
\* -EIO was made on a Valid instance holding its file.
C24_ReleasedIsEBADF ==
    pc = "open" =>
        /\ ~isValid => file = NullPtr
        /\ (ret.op = "loadFieldData" /\ file = NullPtr) =>
              \/ fields = <<>> /\ ret.rc = -EBADF
              \/ fields # <<>> /\ ret.rc = 0
        /\ ret.op = "loadFieldData" => ret.rc # -EIO
        /\ (ret.op = "loadMetaData" /\ ret.rc = -EIO) => (isValid /\ file # NullPtr)
        /\ (ret.op = "loadMetaData" /\ file = NullPtr /\ metaData = NullObj) =>
              ret.rc = -EBADF

\* loadFieldData returned -EBADF on an instance made Invalid by a short
\* title metadata read.
C24_Witness ==
    /\ pc = "open" /\ ~isValid /\ io.reads # <<>> /\ Len(io.reads) = 3
    /\ ret.op = "loadFieldData" /\ ret.rc = -EBADF /\ fields = <<>>

\* C25: a CBC reader exists only on a Valid instance whose key status is Ok
\* and which still holds the file the reader reads from.
C25_ReaderImpliesFile ==
    (pc \in {"unopened", "open"} /\ cbcReader # NullPtr) =>
        /\ cbcReader = "alive"
        /\ isValid
        /\ key_status = "Ok"
        /\ file = "open"

\* The instance had a reader and was closed: the reader and the file are gone.
C25_Witness ==
    /\ pc = "open" /\ ret.op = "close" /\ readerFrees = 1
    /\ cbcReader = NullPtr /\ file = NullPtr /\ key_status = "Ok"

\* The image type of the call is one of the external image types.
UrlTypeInRange == url.imageType >= IMG_EXT_MIN /\ url.imageType <= IMG_EXT_MAX

\* One of the reasons extURLs has for finding no artwork.
UrlNoArtwork ==
    \/ SubSeq(url.title_id, 1, 4) \notin ValidTidHi
    \/ url.imageType \notin {IMG_EXT_COVER, IMG_EXT_COVER_3D, IMG_EXT_COVER_FULL,
                             IMG_EXT_TITLE_SCREEN}
    \/ url.best = 0
    \/ \E i \in 5..8 : url.title_id[i] < 32 \/ url.title_id[i] > 126

\* Number of GameTDB region codes for a region letter: AU and EN for 'U',
\* one code for every other letter.
UrlRegionCount(c) == IF c = 85 THEN 2 ELSE 1

UrlTwoRegions ==
    /\ url.done /\ url.rc = 0 /\ Len(url.vec[1]) = 2
    /\ url.vec[1][1].url[5] = "AU" /\ url.vec[1][2].url[5] = "EN"

\* Lengths of the prefixes of the path that end at a separator, the empty
\* prefix left out.
MkPrefixLens == {n \in 1..(Len(mk.path8) - 1) : mk.path8[n + 1] = DIR_SEP_CHR}

\* The k-th shortest of them.
MkPrefixLen(k) ==
    CHOOSE n \in MkPrefixLens : Cardinality({m \in MkPrefixLens : m < n}) = k - 1

\* mkdir() call k succeeded or found the directory.
MkTolerated(k) == mk.calls[k].errno \in {0, EEXIST}

\* rmkdir made its mkdir() calls on the prefixes that end at a separator, from
\* the shortest on, stopped at the first failure other than EEXIST and
\* returned its negative errno, and returned 0 otherwise.
MkPrefixesInOrder ==
    mk.pc = "done" =>
        /\ Len(mk.calls) <= Cardinality(MkPrefixLens)
        /\ \A k \in 1..Len(mk.calls) :
              /\ mk.calls[k].dir = SubSeq(mk.path8, 1, MkPrefixLen(k))
              /\ k < Len(mk.calls) => MkTolerated(k)
        /\ mk.rc = 0 <=> /\ Len(mk.calls) = Cardinality(MkPrefixLens)
                         /\ \A k \in 1..Len(mk.calls) : MkTolerated(k)
        /\ mk.rc # 0 => /\ mk.calls # <<>>
                        /\ ~MkTolerated(Len(mk.calls))
                        /\ mk.rc = -mk.calls[Len(mk.calls)].errno

\* The separator position grows with every iteration of the loop.
MkPositionGrows ==
    [][(mk.pc = "loop" /\ mk'.pc = "loop" /\ mk'.slash_pos # NPOS)
          => mk'.slash_pos > mk.slash_pos]_vars

\* C22: rmkdir calls mkdir() on every prefix of the path that ends at a
\* separator, shortest first, never on the root of an absolute path; EEXIST
\* is tolerated, any other failure ends the call with the negative errno,
\* and 0 is returned otherwise.
C22_RmkdirPrefixes ==
    /\ MkPrefixesInOrder
    /\ \A k \in 1..Len(mk.calls) : mk.calls[k].dir # <<DIR_SEP_CHR>>

\* The elements of a sequence.
Range(seq) == {seq[i] : i \in 1..Len(seq)}

\* The call ended at one of the four checks before the file is opened.
OvlEarlyExit ==
    \/ ovl.in.pathNull
    \/ ~ovl.in.showOverlay
    \/ ovl.in.dwAttrib \cap {"SFGAO_ISSLOW", "SFGAO_GHOSTED", "SFGAO_FOLDER"} # {}
    \/ ovl.in.badFS

\* C23: IsMemberOf returns E_POINTER for a null path, else S_FALSE if the
\* overlay is disabled, the file is slow, ghosted or a folder, or is on a
\* bad file system, creating no file object; otherwise the file object is
\* created once and released once, E_FAIL is returned if it is not open,
\* S_FALSE if no RomData was created, and a created RomData is released
\* once; S_OK is returned only for a RomData with dangerous permissions.
C23_OverlayOrder ==
    ovl.done =>
        /\ ovl.in.pathNull => (ovl.hr = "E_POINTER" /\ ovl.refs.asked = <<>>)
        /\ (~ovl.in.pathNull /\ OvlEarlyExit) => ovl.hr = "S_FALSE"
        /\ (~ovl.in.pathNull /\ ~ovl.in.showOverlay) => "isOnBadFS" \notin Range(ovl.refs.asked)
        /\ OvlEarlyExit =>
              /\ ovl.refs.files = 0 /\ ovl.refs.fileUnrefs = 0
              /\ ovl.refs.romDatas = 0 /\ ovl.refs.romDataUnrefs = 0
        /\ ~OvlEarlyExit =>
              /\ ovl.refs.files = 1 /\ ovl.refs.fileUnrefs = 1
              /\ ~ovl.in.isOpen => (ovl.hr = "E_FAIL" /\ ovl.refs.romDatas = 0)
              /\ (ovl.in.isOpen /\ ~ovl.in.supported) =>
                    (ovl.hr = "S_FALSE" /\ ovl.refs.romDatas = 0)
              /\ (ovl.in.isOpen /\ ovl.in.supported) =>
                    /\ ovl.refs.romDatas = 1
                    /\ ovl.hr = IF ovl.in.dangerous THEN "S_OK" ELSE "S_FALSE"
        /\ ovl.refs.romDataUnrefs = ovl.refs.romDatas
        /\ ovl.hr = "S_OK" =>
              (ovl.refs.romDatas = 1 /\ ovl.in.dangerous /\ ~OvlEarlyExit)

\* The file object was created, could not be opened and was released.
C23_Witness ==
    /\ ovl.done /\ ovl.hr = "E_FAIL"
    /\ ovl.refs.files = 1 /\ ovl.refs.fileUnrefs = 1
    /\ ovl.in.supported /\ ovl.in.dangerous

\* The directory built on a base directory: empty for an empty base, else
\* the base, a slash unless the base ends with one, and "rom-properties".
BuiltDir(base) ==
    IF base = <<>> THEN <<>>
    ELSE IF base[Len(base)] = "/" THEN base \o <<"rom-properties">>
    ELSE base \o <<"/", "rom-properties">>

\* C26: initConfigDirectories runs once for the callers of both functions,
\* no caller returns before it has ended, and every string returned is the
\* fully built directory.
C26_DirsInitOnce ==
    /\ dirs.inits <= 1
    /\ (\E t \in Callers : dirs.pc[t] # "start") => dirs.inits = 1
    /\ \A t \in Callers :
          /\ dirs.pc[t] \in {"return", "returned"} => dirs.once = "done"
          /\ dirs.got[t] # NullObj =>
                dirs.got[t] = Ptr(BuiltDir(IF dirs.fn[t] = "getCacheDirectory"
                                           THEN dirs.cache_base
                                           ELSE dirs.config_base))

\* One thread asked for the cache directory and one for the config
\* directory; the one that had to wait got a directory with a slash added.
C26_Witness ==
    \E t, u \in Callers :
        /\ dirs.fn[t] = "getCacheDirectory" /\ dirs.fn[u] = "getConfigDirectory"
        /\ dirs.pc[t] = "returned" /\ dirs.pc[u] = "returned"
        /\ dirs.config_base = <<"a">>
        /\ dirs.got[u] = Ptr(<<"a", "/", "rom-properties">>)
        /\ dirs.got[t] = Ptr(<<>>)

=============================================================================
